---------------------------- MODULE Spec2Model ----------------------------
(***************************************************************************)
(* MochaRemoteClient (src/unnamed/part_001): the session endpoint of       *)
(* mocha-remote.  The model covers the connection manager (connect,        *)
(* disconnect, the close/error/message/open listeners and the retry        *)
(* timer), the run instrumentation shim (instrument, run, getMocha) and    *)
(* the reporter that forwards the runner's events through send.            *)
(*                                                                         *)
(* The WebSocket transport, the timer queue and the Mocha runner are the   *)
(* environment: their events are the actions of the model.  Handlers run   *)
(* to completion (single-threaded event loop), so each action is one       *)
(* handler with every callback it invokes.                                 *)
(***************************************************************************)
EXTENDS Integers, Sequences, FiniteSets, TLC

\* ------------------------------------------------------------------ bounds
MaxConns == 2        \* WebSocket objects created during one behaviour
MaxMochas == 2       \* Mocha instances created during one behaviour
MaxRuns == 2         \* runners created during one behaviour
MaxEvents == 2       \* events one runner emits
RetryDelay == 1      \* config.retryDelay, in clock ticks

\* ------------------------------------------------------- program constants
NormalClosure == 1000

\* The close codes the transport reports: normal closure and one other.
CloseCodes == {NormalClosure, 1006}

MOCHA_EVENT_NAMES ==
  {"start", "end", "suite", "suite end", "test", "test end",
   "hook", "hook end", "pass", "fail", "pending"}

\* The events the modelled runner emits: two names the reporter listens
\* for and one ("retry") Mocha emits that is not in MOCHA_EVENT_NAMES.
RunnerEvents == {"fail", "end", "retry"}

\* The events that have a listener, among those the runner emits.
Lifecycle == RunnerEvents \cap MOCHA_EVENT_NAMES

\* Inbound frames after JSON.parse: the field the code reads is eventName.
Messages ==
  {[type |-> "run", eventName |-> "undefined"],
   [type |-> "undefined", eventName |-> "run"],
   [type |-> "undefined", eventName |-> "start"]}

\* What config.onDisconnected does when it is invoked.
DisconnectedCallbacks == {"absent", "noop", "connect", "disconnect"}

VARIABLES
  config,             \* [autoConnect, autoRetry]
  ws,                 \* this.ws: 0 (undefined) or an index of conns
  conns,              \* every WebSocket created: [readyState, listeners, fn]
  retryTimeout,       \* this.retryTimeout: 0 (undefined) or a timer id
  timers,             \* pending timers: [id, remaining, age]
  instrumentedMocha,  \* this.instrumentedMocha: 0 or an index of mochas
  mochas,             \* every Mocha instance: [run, originalRun]
  runs,               \* every runner: [mocha, reporter, conn, emitted, ended]
  sent,               \* frames handed to WebSocket.send, in order
  lastOp,             \* the handler that ran last and what it did
  lastClose,          \* the last close event handled by onClose
  afterDisconnect     \* what happened since the last disconnect()

vars == <<config, ws, conns, retryTimeout, timers, instrumentedMocha, mochas,
          runs, sent, lastOp, lastClose, afterDisconnect>>

\* The endpoint's fields as one value, so that handlers compose.
Client ==
  [ws |-> ws, conns |-> conns, retryTimeout |-> retryTimeout,
   timers |-> timers, instrumentedMocha |-> instrumentedMocha,
   mochas |-> mochas, runs |-> runs, sent |-> sent,
   autoRetry |-> config.autoRetry, err |-> "", calls |-> <<>>]

Commit(s) ==
  /\ ws' = s.ws
  /\ conns' = s.conns
  /\ retryTimeout' = s.retryTimeout
  /\ timers' = s.timers
  /\ instrumentedMocha' = s.instrumentedMocha
  /\ mochas' = s.mochas
  /\ runs' = s.runs
  /\ sent' = s.sent
  /\ UNCHANGED config

\* An entry of the call log of a handler: callee and the argument passed
\* (the Mocha instance, the close code; 0 if none).
Call(f, m) == [f |-> f, m |-> m]

\* ------------------------------------------------------------ timer queue
clearTimeout(t, id) == {x \in t : x.id # id}

\* age counts the ticks since the timer was set; the event loop does not
\* read it.
setTimeout(t, id, delay) ==
  t \cup {[id |-> id, remaining |-> delay, age |-> 0]}

\* Timer ids are never reused while something still refers to them.
FreshTimer(s) ==
  CHOOSE i \in 1..(Cardinality(s.timers) + 2) :
    /\ i # s.retryTimeout
    /\ \A x \in s.timers : x.id # i

\* -------------------------------------------------------------- WebSocket
NewWebSocket(fn) ==
  [readyState |-> "CONNECTING",
   listeners |-> {"close", "error", "message", "open"},
   fn |-> fn]

\* WebSocket.close(): starts the closing handshake unless already closing.
WebSocketClose(c) ==
  IF c.readyState \in {"CONNECTING", "OPEN"}
  THEN [c EXCEPT !.readyState = "CLOSING"]
  ELSE c

\* ----------------------------------------------------- connection manager
connectUnguarded(s, fn) ==
  LET t == IF s.retryTimeout # 0
           THEN clearTimeout(s.timers, s.retryTimeout) ELSE s.timers
  IN [s EXCEPT !.timers = t,
               !.conns = Append(@, NewWebSocket(fn)),
               !.ws = Len(s.conns) + 1]

connectKeepsTimer(s, fn) ==
  IF s.ws # 0
  THEN [s EXCEPT !.err = "Already connected"]
  ELSE [s EXCEPT !.conns = Append(@, NewWebSocket(fn)),
                 !.ws = Len(s.conns) + 1]

connect(s, fn) ==
  IF s.ws # 0
  THEN [s EXCEPT !.err = "Already connected"]
  ELSE LET t == IF s.retryTimeout # 0
                THEN clearTimeout(s.timers, s.retryTimeout) ELSE s.timers
       IN [s EXCEPT !.timers = t,
                    !.conns = Append(@, NewWebSocket(fn)),
                    !.ws = Len(s.conns) + 1]

disconnectKeepsListeners(s) ==
  LET t == IF s.retryTimeout # 0
           THEN clearTimeout(s.timers, s.retryTimeout) ELSE s.timers
  IN IF s.ws # 0
     THEN [s EXCEPT !.timers = t,
                    !.conns[s.ws] = WebSocketClose(@),
                    !.ws = 0]
     ELSE [s EXCEPT !.timers = t]

disconnectUnguardedClose(s) ==
  LET t == IF s.retryTimeout # 0
           THEN clearTimeout(s.timers, s.retryTimeout) ELSE s.timers
  IN IF s.ws # 0
     THEN [s EXCEPT !.timers = t,
                    !.conns[s.ws] =
                      WebSocketClose(
                        [@ EXCEPT !.listeners =
                                    @ \ {"close", "error", "message"}]),
                    !.ws = 0]
     ELSE [s EXCEPT !.timers = t, !.err = "TypeError"]

disconnectWithoutClose(s) ==
  LET t == IF s.retryTimeout # 0
           THEN clearTimeout(s.timers, s.retryTimeout) ELSE s.timers
  IN IF s.ws # 0
     THEN [s EXCEPT !.timers = t,
                    !.conns[s.ws].listeners =
                      @ \ {"close", "error", "message"},
                    !.ws = 0]
     ELSE [s EXCEPT !.timers = t]

disconnect(s) ==
  LET t == IF s.retryTimeout # 0
           THEN clearTimeout(s.timers, s.retryTimeout) ELSE s.timers
  IN IF s.ws # 0
     THEN [s EXCEPT !.timers = t,
                    !.conns[s.ws] =
                      WebSocketClose(
                        [@ EXCEPT !.listeners =
                                    @ \ {"close", "error", "message"}]),
                    !.ws = 0]
     ELSE [s EXCEPT !.timers = t]

\* config.onDisconnected({code, reason}), as the configuration wrote it.
onDisconnected(s, code, cb) ==
  LET called == [s EXCEPT !.calls = Append(@, Call("onDisconnected", code))]
  IN CASE cb = "absent" -> s
       [] cb = "noop" -> called
       [] cb = "connect" -> connect(called, FALSE)
       [] cb = "disconnect" -> disconnect(called)

onCloseNoDelay(s, code, cb) ==
  LET forgotten == [s EXCEPT !.ws = 0]
      id == FreshTimer(forgotten)
      retrying ==
        IF code # NormalClosure /\ s.autoRetry
        THEN [forgotten EXCEPT !.retryTimeout = id,
                               !.timers = setTimeout(@, id, 0)]
        ELSE forgotten
  IN onDisconnected(retrying, code, cb)

onCloseRetriesNormalOnly(s, code, cb) ==
  LET forgotten == [s EXCEPT !.ws = 0]
      id == FreshTimer(forgotten)
      retrying ==
        IF code = NormalClosure /\ s.autoRetry
        THEN [forgotten EXCEPT !.retryTimeout = id,
                               !.timers = setTimeout(@, id, RetryDelay)]
        ELSE forgotten
  IN onDisconnected(retrying, code, cb)

onCloseNotifiesFirst(s, code, cb) ==
  LET notified == onDisconnected(s, code, cb)
      forgotten == [notified EXCEPT !.ws = 0]
      id == FreshTimer(forgotten)
  IN IF code # NormalClosure /\ s.autoRetry
     THEN [forgotten EXCEPT !.retryTimeout = id,
                            !.timers = setTimeout(@, id, RetryDelay)]
     ELSE forgotten

onClose(s, code, cb) ==
  LET forgotten == [s EXCEPT !.ws = 0]
      id == FreshTimer(forgotten)
      retrying ==
        IF code # NormalClosure /\ s.autoRetry
        THEN [forgotten EXCEPT !.retryTimeout = id,
                               !.timers = setTimeout(@, id, RetryDelay)]
        ELSE forgotten
  IN onDisconnected(retrying, code, cb)

onErrorDropsConnection(s) == [s EXCEPT !.ws = 0]

\* Logs only.
onError(s) == s

onOpenFnFirst(s, c) ==
  LET called == IF s.conns[c].fn
                THEN [s EXCEPT !.calls = Append(@, Call("fn", 0))]
                ELSE s
  IN [called EXCEPT !.calls = Append(@, Call("onConnected", 0))]

\* The anonymous "open" listener registered by connect(fn).
onOpen(s, c) ==
  LET connected == [s EXCEPT !.calls = Append(@, Call("onConnected", 0))]
  IN IF s.conns[c].fn
     THEN [connected EXCEPT !.calls = Append(@, Call("fn", 0))]
     ELSE connected

\* ------------------------------------------------- instrumentation shim
NewMocha == [run |-> "native", originalRun |-> "undefined"]

IsOpen(s) == s.ws # 0 /\ s.conns[s.ws].readyState = "OPEN"

\* Mocha.prototype.run: creates a runner reporting to `reporter`.  conn
\* records the connection that was open at that moment (0 if none).
MochaRun(s, m, reporter) ==
  [s EXCEPT !.runs = Append(@, [mocha |-> m, reporter |-> reporter,
                                conn |-> IF IsOpen(s) THEN s.ws ELSE 0,
                                emitted |-> <<>>, ended |-> FALSE]),
            !.calls = Append(@, Call("Mocha.run", m))]

\* The function stored in a run slot, invoked.
Invoke(s, m, slot, reporter) ==
  CASE slot = "native" -> MochaRun(s, m, reporter)
    [] slot = "guard" ->
         [s EXCEPT !.err = "This Mocha instance is instrumented"]
    [] OTHER -> [s EXCEPT !.err = "TypeError"]

instrument(s, m) ==
  [s EXCEPT !.instrumentedMocha = m,
            !.mochas[m] = [run |-> "guard", originalRun |-> @.run],
            !.calls = Append(@, Call("onInstrumented", m))]

run(s, m) ==
  LET entered == [s EXCEPT !.calls = Append(@, Call("run", m))]
      started == Invoke(entered, m, s.mochas[m].originalRun, "remote")
  IN IF started.err = ""
     THEN [started EXCEPT !.calls = Append(@, Call("onRunning", m))]
     ELSE started

\* The instance getMocha returns is instrumentedMocha of the state it returns.
getMocha(s) ==
  IF s.instrumentedMocha # 0
  THEN s
  ELSE instrument([s EXCEPT !.mochas = Append(@, NewMocha)],
                  Len(s.mochas) + 1)

prepareArgs(args) ==
  [i \in DOMAIN args |-> IF args[i] = "Error" THEN "ErrorProperties"
                         ELSE args[i]]

\* The arguments the runner passes with each event.
EventArgs(eventName) ==
  CASE eventName = "fail" -> <<"test", "Error">>
    [] eventName \in {"start", "end"} -> <<>>
    [] OTHER -> <<"test">>

sendOutOfOrder(s, r, eventName, args) ==
  IF s.ws # 0 /\ s.conns[s.ws].readyState = "OPEN"
  THEN [s EXCEPT !.sent = <<[conn |-> s.ws, run |-> r,
                            eventName |-> eventName,
                            args |-> prepareArgs(args)]>> \o @]
  ELSE [s EXCEPT !.err = "Cannot send, WebSocket is closed"]

sendWhenHeld(s, r, eventName, args) ==
  IF s.ws # 0
  THEN [s EXCEPT !.sent = Append(@, [conn |-> s.ws, run |-> r,
                                     eventName |-> eventName,
                                     args |-> prepareArgs(args)])]
  ELSE [s EXCEPT !.err = "Cannot send, WebSocket is closed"]

\* r tags the frame with the runner whose listener called send; the code
\* does not transmit it.
send(s, r, eventName, args) ==
  IF s.ws # 0 /\ s.conns[s.ws].readyState = "OPEN"
  THEN [s EXCEPT !.sent = Append(@, [conn |-> s.ws, run |-> r,
                                     eventName |-> eventName,
                                     args |-> prepareArgs(args)])]
  ELSE [s EXCEPT !.err = "Cannot send, WebSocket is closed"]

onMessageAnyFrame(s, data) ==
  LET got == getMocha(s)
  IN run([got EXCEPT !.instrumentedMocha = 0], got.instrumentedMocha)

onMessageKeepsInstance(s, data) ==
  IF data.eventName = "run"
  THEN LET got == getMocha(s)
       IN run(got, got.instrumentedMocha)
  ELSE s

onMessage(s, data) ==
  IF data.eventName = "run"
  THEN LET got == getMocha(s)
       IN run([got EXCEPT !.instrumentedMocha = 0], got.instrumentedMocha)
  ELSE s

createReporterWithoutEnd == MOCHA_EVENT_NAMES \ {"end"}

\* The reporter class of createReporter: one listener per name.
createReporter == MOCHA_EVENT_NAMES

\* runner.emit(eventName, ...args) on runner r.  Each emitted entry records
\* the connection that was open at that moment (0 if none).
RunnerEmit(s, r, eventName) ==
  LET noted == [s EXCEPT !.runs[r].emitted =
                           Append(@, [eventName |-> eventName,
                                      conn |-> IF IsOpen(s) THEN s.ws
                                               ELSE 0]),
                         !.runs[r].ended = (eventName = "end")]
  IN IF s.runs[r].reporter = "remote" /\ eventName \in createReporter
     THEN send(noted, r, eventName, EventArgs(eventName))
     ELSE noted

\* ---------------------------------------------------------------- actions
NoData == [type |-> "undefined", eventName |-> "undefined"]

Op(name) ==
  [name |-> name, err |-> "", calls |-> <<>>, code |-> 0, cb |-> "absent",
   data |-> NoData, m |-> 0, event |-> ""]

Done(op, s) == [op EXCEPT !.err = s.err, !.calls = s.calls]

Bounded(s) ==
  /\ Len(s.conns) <= MaxConns
  /\ Len(s.mochas) <= MaxMochas
  /\ Len(s.runs) <= MaxRuns

NotDisconnected == [active |-> FALSE, auto |-> 0, msgs |-> 0]

JustDisconnected == [active |-> TRUE, auto |-> 0, msgs |-> 0]

NoClose == [code |-> 0, attempts |-> 0, early |-> FALSE]

\* new MochaRemoteClient(config)
Init ==
  /\ config \in [autoConnect : BOOLEAN, autoRetry : BOOLEAN]
  /\ LET blank == [ws |-> 0, conns |-> <<>>, retryTimeout |-> 0,
                   timers |-> {}, instrumentedMocha |-> 0, mochas |-> <<>>,
                   runs |-> <<>>, sent |-> <<>>,
                   autoRetry |-> config.autoRetry, err |-> "",
                   calls |-> <<>>]
         s == IF config.autoConnect THEN connect(blank, FALSE) ELSE blank
     IN /\ ws = s.ws
        /\ conns = s.conns
        /\ retryTimeout = s.retryTimeout
        /\ timers = s.timers
        /\ instrumentedMocha = s.instrumentedMocha
        /\ mochas = s.mochas
        /\ runs = s.runs
        /\ sent = s.sent
  /\ lastOp = Op("constructor")
  /\ lastClose = NoClose
  /\ afterDisconnect = NotDisconnected

\* MochaRemoteClient.DEFAULT_CONFIG
DefaultConfig == [autoConnect |-> TRUE, autoRetry |-> TRUE]

\* new MochaRemoteClient() and new MochaRemoteClient({autoRetry})
InitDefault == Init /\ config = DefaultConfig

InitAutoConnect == Init /\ config.autoConnect

\* The application calls client.connect(fn).
Connect(fn) ==
  LET s == connect(Client, fn)
  IN /\ Bounded(s)
     /\ Commit(s)
     /\ lastOp' = Done(Op("connect"), s)
     /\ afterDisconnect' =
          IF s.err = "" THEN NotDisconnected ELSE afterDisconnect
     /\ UNCHANGED lastClose

\* The application calls client.disconnect().
Disconnect ==
  LET s == disconnect(Client)
  IN /\ Commit(s)
     /\ lastOp' = [Done(Op("disconnect"), s) EXCEPT
                     !.cb = IF ws = 0 THEN "no connection"
                            ELSE conns[ws].readyState]
     /\ afterDisconnect' = JustDisconnected
     /\ UNCHANGED lastClose

\* The transport completes the opening handshake of connection c.
WsOpen(c) ==
  /\ conns[c].readyState = "CONNECTING"
  /\ LET opened == [Client EXCEPT !.conns[c].readyState = "OPEN"]
         s == IF "open" \in conns[c].listeners
              THEN onOpen(opened, c) ELSE opened
     IN /\ Commit(s)
        /\ lastOp' = Done(Op("open"), s)
  /\ UNCHANGED <<lastClose, afterDisconnect>>

\* The peer starts the closing handshake of connection c.
WsClosing(c) ==
  /\ conns[c].readyState = "OPEN"
  /\ Commit([Client EXCEPT !.conns[c].readyState = "CLOSING"])
  /\ lastOp' = Op("closing")
  /\ UNCHANGED <<lastClose, afterDisconnect>>

\* Connection c closes with `code`; cb is what onDisconnected does.
WsClose(c, code, cb) ==
  /\ conns[c].readyState # "CLOSED"
  /\ LET closed == [Client EXCEPT !.conns[c].readyState = "CLOSED"]
         heard == "close" \in conns[c].listeners
         s == IF heard THEN onClose(closed, code, cb) ELSE closed
     IN /\ heard \/ cb = "absent"
        /\ Bounded(s)
        /\ Commit(s)
        /\ lastOp' = [Done(Op("close"), s) EXCEPT
                        !.code = code,
                        !.cb = IF heard THEN cb ELSE "unheard"]
        /\ lastClose' =
             IF heard THEN [NoClose EXCEPT !.code = code] ELSE lastClose
        /\ afterDisconnect' =
             CASE heard /\ cb = "disconnect" -> JustDisconnected
               [] heard /\ cb = "connect" /\ s.err = "" -> NotDisconnected
               [] OTHER -> afterDisconnect

\* The transport reports an error on connection c.
WsError(c) ==
  /\ conns[c].readyState # "CLOSED"
  /\ LET s == IF "error" \in conns[c].listeners
              THEN onError(Client) ELSE Client
     IN /\ Commit(s)
        /\ lastOp' = [Done(Op("error"), s) EXCEPT
                        !.cb = IF "error" \in conns[c].listeners
                               THEN "absent" ELSE "unheard"]
  /\ UNCHANGED <<lastClose, afterDisconnect>>

\* A frame arrives on connection c.
WsMessage(c, data) ==
  /\ conns[c].readyState \in {"OPEN", "CLOSING"}
  /\ LET heard == "message" \in conns[c].listeners
         s == IF heard THEN onMessage(Client, data) ELSE Client
     IN /\ Bounded(s)
        /\ Commit(s)
        /\ lastOp' = [Done(Op("message"), s) EXCEPT
                        !.data = data,
                        !.cb = IF heard THEN "absent" ELSE "unheard"]
        /\ afterDisconnect' =
             IF heard /\ afterDisconnect.active
             THEN [afterDisconnect EXCEPT !.msgs = 1]
             ELSE afterDisconnect
  /\ UNCHANGED lastClose

\* One clock tick passes.
Tick ==
  /\ \E x \in timers : x.remaining > 0
  /\ timers' = {[x EXCEPT !.remaining = IF @ > 0 THEN @ - 1 ELSE 0,
                          !.age = IF @ < RetryDelay THEN @ + 1 ELSE @] :
                  x \in timers}
  /\ lastOp' = Op("tick")
  /\ UNCHANGED <<config, ws, conns, retryTimeout, instrumentedMocha, mochas,
                 runs, sent, lastClose, afterDisconnect>>

\* The event loop runs the callback of a due timer: () => this.connect().
TimerFire(id) ==
  /\ \E x \in timers : x.id = id /\ x.remaining = 0
  /\ LET s == connect([Client EXCEPT !.timers = clearTimeout(@, id)], FALSE)
     IN /\ Bounded(s)
        /\ Commit(s)
        /\ lastOp' = Done(Op("timer"), s)
  /\ lastClose' = [lastClose EXCEPT
                     !.attempts = IF @ < 2 THEN @ + 1 ELSE @,
                     !.early = @ \/ \E x \in timers :
                                      x.id = id /\ x.age < RetryDelay]
  /\ afterDisconnect' =
       IF afterDisconnect.active
       THEN [afterDisconnect EXCEPT !.auto = 1] ELSE afterDisconnect

\* The application creates a Mocha instance and calls client.instrument.
InstrumentNew ==
  LET s == instrument([Client EXCEPT !.mochas = Append(@, NewMocha)],
                      Len(mochas) + 1)
  IN /\ Bounded(s)
     /\ Commit(s)
     /\ lastOp' = [Done(Op("instrument"), s) EXCEPT !.m = Len(mochas) + 1]
     /\ UNCHANGED <<lastClose, afterDisconnect>>

\* The application calls client.instrument on an instance it already has.
Instrument(m) ==
  LET s == instrument(Client, m)
  IN /\ Commit(s)
     /\ lastOp' = [Done(Op("reinstrument"), s) EXCEPT !.m = m]
     /\ UNCHANGED <<lastClose, afterDisconnect>>

\* The application calls client.run(m).
Run(m) ==
  LET s == run(Client, m)
  IN /\ Bounded(s)
     /\ Commit(s)
     /\ lastOp' = [Done(Op("run"), s) EXCEPT !.m = m]
     /\ UNCHANGED <<lastClose, afterDisconnect>>

\* The application calls m.run() on the instance itself.
DirectRun(m) ==
  LET s == Invoke(Client, m, mochas[m].run, "default")
  IN /\ Bounded(s)
     /\ Commit(s)
     /\ lastOp' = [Done(Op("m.run"), s) EXCEPT !.m = m]
     /\ UNCHANGED <<lastClose, afterDisconnect>>

\* Runner r emits an event.
Emit(r, eventName) ==
  /\ ~runs[r].ended
  /\ Len(runs[r].emitted) < MaxEvents
  /\ LET s == RunnerEmit(Client, r, eventName)
     IN /\ Commit(s)
        /\ lastOp' = [Done(Op("emit"), s) EXCEPT
                        !.m = r, !.event = eventName]
  /\ UNCHANGED <<lastClose, afterDisconnect>>

\* Frames whose eventName the core does not act on, and run requests.
IgnoredMessages == {d \in Messages : d.eventName # "run"}

RunRequests == Messages \ IgnoredMessages

\* The application's connection calls, the transport and the timer queue.
ConnNext ==
  \/ \E fn \in BOOLEAN : Connect(fn)
  \/ Disconnect
  \/ \E c \in DOMAIN conns : WsOpen(c)
  \/ \E c \in DOMAIN conns : WsClosing(c)
  \/ \E c \in DOMAIN conns, code \in CloseCodes,
        cb \in DisconnectedCallbacks : WsClose(c, code, cb)
  \/ \E c \in DOMAIN conns : WsError(c)
  \/ \E c \in DOMAIN conns, data \in IgnoredMessages : WsMessage(c, data)
  \/ Tick
  \/ \E id \in {x.id : x \in timers} : TimerFire(id)

\* The application's calls into the instrumentation shim.
ShimNext ==
  \/ InstrumentNew
  \/ \E m \in DOMAIN mochas : Instrument(m)
  \/ \E m \in DOMAIN mochas : Run(m)
  \/ \E m \in DOMAIN mochas : DirectRun(m)

\* The runners.
RunnerNext ==
  \E r \in DOMAIN runs, eventName \in RunnerEvents : Emit(r, eventName)

\* The controller's run requests.
RequestNext ==
  \E c \in DOMAIN conns, data \in RunRequests : WsMessage(c, data)

Next == ConnNext \/ RequestNext \/ ShimNext \/ RunnerNext

\* The whole endpoint.
Spec == Init /\ [][Next]_vars

\* The connection manager: connections, retries, listeners.
SpecConn == Init /\ [][ConnNext]_vars

\* The instrumentation shim of an endpoint with the default configuration,
\* on the connection it opens at construction; runners only end.
ShimSpecNext ==
  \/ \E c \in DOMAIN conns : WsOpen(c)
  \/ \E c \in DOMAIN conns, data \in Messages : WsMessage(c, data)
  \/ ShimNext
  \/ \E r \in DOMAIN runs : Emit(r, "end")

SpecShim == InitDefault /\ [][ShimSpecNext]_vars

\* The event stream of one requested run over connections that come and go
\* (autoConnect as by default, no onDisconnected callback configured).
EventsNext ==
  \/ Connect(FALSE)
  \/ Disconnect
  \/ \E c \in DOMAIN conns : WsOpen(c)
  \/ \E c \in DOMAIN conns : WsClosing(c)
  \/ \E c \in DOMAIN conns, code \in CloseCodes :
        WsClose(c, code, "absent")
  \/ Tick
  \/ \E id \in {x.id : x \in timers} : TimerFire(id)
  \/ runs = <<>> /\ RequestNext
  \/ RunnerNext

SpecEvents == InitAutoConnect /\ [][EventsNext]_vars

\* Run requests on an endpoint whose application instruments instances of
\* its own but neither runs them itself nor instruments one a second time.
SelectNext ==
  \/ \E c \in DOMAIN conns : WsOpen(c)
  \/ \E c \in DOMAIN conns, data \in Messages : WsMessage(c, data)
  \/ InstrumentNew
  \/ \E c \in DOMAIN conns : WsClosing(c)
  \/ \E r \in DOMAIN runs : Emit(r, "end")

SpecSelect == Init /\ [][SelectNext]_vars

InitAutoRetry == Init /\ config.autoRetry

\* The retry loop of an endpoint with autoRetry on which disconnect() is
\* never called (neither by the application nor from onDisconnected).
RetryNext ==
  \/ \E fn \in BOOLEAN : Connect(fn)
  \/ \E c \in DOMAIN conns : WsOpen(c)
  \/ \E c \in DOMAIN conns : WsClosing(c)
  \/ \E c \in DOMAIN conns, code \in CloseCodes, cb \in {"absent", "noop"} :
        WsClose(c, code, cb)
  \/ \E c \in DOMAIN conns : WsError(c)
  \/ Tick
  \/ \E id \in {x.id : x \in timers} : TimerFire(id)

\* Time passes and the event loop runs due timers; the transport finishes
\* the handshake of a connection that stays connecting.
SpecRetry ==
  /\ InitAutoRetry
  /\ [][RetryNext]_vars
  /\ WF_vars(Tick)
  /\ WF_vars(\E id \in {x.id : x \in timers} : TimerFire(id))
  /\ WF_vars(\E c \in DOMAIN conns : WsOpen(c))

\* ============================================================== claims

\* C1: a close of the current connection with a code other than 1000, with
\* autoRetry enabled, schedules exactly one timer, due after retryDelay, and
\* the connect() that timer issues does not happen before retryDelay has
\* passed; a close with code 1000, or with autoRetry disabled, schedules no
\* timer and is followed by no timer-issued connect().
C1_ReconnectPolicy ==
  /\ lastClose.attempts <= 1
  /\ lastClose.attempts = 1 =>
       /\ lastClose.code \notin {0, NormalClosure}
       /\ config.autoRetry
       /\ ~lastClose.early
  /\ (lastOp.name = "close" /\ lastOp.cb \in {"absent", "noop"}) =>
       IF lastOp.code # NormalClosure /\ config.autoRetry
       THEN timers = {[id |-> retryTimeout, remaining |-> RetryDelay,
                       age |-> 0]}
       ELSE timers = {}

\* C1 witness: the retry timer of an abnormal close has fired and called
\* connect().
C1_Witness ==
  /\ lastOp.name = "timer"
  /\ lastClose.attempts = 1
  /\ lastClose.code \in CloseCodes \ {NormalClosure}
  /\ ws # 0

\* C2: from the return of disconnect() until the next explicit connect(),
\* no timer-issued connect() happens and onMessage is not invoked.
C2_DisconnectIsFinal ==
  afterDisconnect.active =>
    /\ afterDisconnect.auto = 0
    /\ afterDisconnect.msgs = 0
    /\ timers = {}
    /\ ws = 0

\* C2 witness: after a disconnect() a frame arrived on the abandoned
\* connection and reached no listener.
C2_Witness ==
  /\ afterDisconnect.active
  /\ lastOp.name = "message"
  /\ lastOp.cb = "unheard"

\* C3: connect() with a connection handle held throws "Already connected"
\* and changes nothing; with no handle held it leaves no retry timer
\* pending and opens exactly one new connection, which becomes the handle.
C3_ConnectGuard ==
  [][lastOp'.name = "connect" =>
       IF ws # 0
       THEN /\ lastOp'.err = "Already connected"
            /\ UNCHANGED <<ws, conns, timers, retryTimeout>>
       ELSE /\ lastOp'.err = ""
            /\ timers' = {}
            /\ Len(conns') = Len(conns) + 1
            /\ \A c \in DOMAIN conns : conns'[c] = conns[c]
            /\ ws' = Len(conns')
            /\ conns'[ws'].readyState = "CONNECTING"]_vars

\* C3 witness: connect() was called while a connection was held and threw.
C3_Witness ==
  /\ lastOp.name = "connect"
  /\ lastOp.err = "Already connected"
  /\ ws # 0

\* The calls of f in a call log.
CallsOf(calls, f) == SelectSeq(calls, LAMBDA x : x.f = f)

\* The runners started on connection c that have not emitted "end".
Running(c) == {r \in DOMAIN runs : runs[r].conn = c /\ ~runs[r].ended}

C5_OneRunPerConnection ==
  [][(/\ lastOp'.name = "message"
      /\ \A c \in DOMAIN conns : Cardinality(Running(c)) <= 1)
       => \A c \in DOMAIN conns : Cardinality(Running(c)') <= 1]_vars

\* C9: after instrument(m), m.run() throws the "instrumented" error and
\* starts no runner, while client.run(m) succeeds and invokes Mocha's own
\* run exactly once.
C9_DirectRunGuard ==
  [][/\ lastOp'.name = "m.run" =>
          /\ lastOp'.err = "This Mocha instance is instrumented"
          /\ runs' = runs
     /\ lastOp'.name = "run" =>
          /\ lastOp'.err = ""
          /\ CallsOf(lastOp'.calls, "Mocha.run")
               = <<Call("Mocha.run", lastOp'.m)>>
          /\ Len(runs') = Len(runs) + 1]_vars

\* C10: instrumenting an instance again changes only the stored reference:
\* the instance keeps Mocha's own run as originalRun.
C10_ReinstrumentKeepsOriginal ==
  [][lastOp'.name = "reinstrument" =>
       /\ instrumentedMocha' = lastOp'.m
       /\ mochas' = mochas
       /\ mochas'[lastOp'.m].originalRun = "native"]_vars

\* The frame send transmits for an event of runner r on connection c.
Frame(c, r, eventName) ==
  [conn |-> c, run |-> r, eventName |-> eventName,
   args |-> prepareArgs(EventArgs(eventName))]

\* The frames transmitted for runner r, in transmission order.
FramesOf(r) == SelectSeq(sent, LAMBDA f : f.run = r)

\* The events of MOCHA_EVENT_NAMES runner r emitted, in emission order.
LifecycleOf(r) ==
  SelectSeq(runs[r].emitted, LAMBDA e : e.eventName \in MOCHA_EVENT_NAMES)

\* ... and those of them emitted while a connection was open.
DeliverableOf(r) == SelectSeq(LifecycleOf(r), LAMBDA e : e.conn # 0)

\* The connection runner r was started on is still the open connection.
StaysOpen(r) ==
  /\ runs[r].conn # 0
  /\ ws = runs[r].conn
  /\ conns[ws].readyState = "OPEN"

\* The connection runner r was started on is gone and a later one is open.
Reestablished(r) ==
  /\ runs[r].conn # 0
  /\ ws > runs[r].conn
  /\ conns[ws].readyState = "OPEN"

\* C6: while the connection a run was started on stays open, the frames
\* transmitted for the run are exactly the lifecycle events the runner
\* emitted, one frame each, in emission order, all on that connection.
C6_Ordering ==
  \A r \in DOMAIN runs :
    StaysOpen(r) =>
      FramesOf(r) = [i \in DOMAIN LifecycleOf(r) |->
                       Frame(ws, r, LifecycleOf(r)[i].eventName)]

\* C6 witness: a run has emitted two different lifecycle events on a
\* connection that stayed open.
C6_Witness ==
  \E r \in DOMAIN runs :
    /\ StaysOpen(r)
    /\ Len(LifecycleOf(r)) = 2
    /\ LifecycleOf(r)[1].eventName # LifecycleOf(r)[2].eventName
    /\ Len(FramesOf(r)) = 2

\* C7 as stated: also when the connection was lost and re-established during
\* the run, every lifecycle event the runner emitted has exactly one frame,
\* in emission order.
C7_ExactlyOnceAcrossReconnects ==
  \A r \in DOMAIN runs :
    Reestablished(r) =>
      [i \in DOMAIN FramesOf(r) |-> FramesOf(r)[i].eventName]
        = [i \in DOMAIN LifecycleOf(r) |-> LifecycleOf(r)[i].eventName]

\* C7 amended: the frames transmitted for a run are exactly the lifecycle
\* events emitted while a connection was open, one frame each, in emission
\* order, each on the connection open at that moment; an event emitted
\* while no connection is open has no frame, then or later.
C7_ExactlyOnceWhileOpen ==
  \A r \in DOMAIN runs :
    FramesOf(r) = [i \in DOMAIN DeliverableOf(r) |->
                     Frame(DeliverableOf(r)[i].conn, r,
                           DeliverableOf(r)[i].eventName)]

\* C7 witness: a run lost an event while disconnected and, after the
\* connection was re-established, had a later event transmitted.
C7_Witness ==
  \E r \in DOMAIN runs :
    /\ Reestablished(r)
    /\ Len(LifecycleOf(r)) = 2
    /\ LifecycleOf(r)[1].conn = 0
    /\ LifecycleOf(r)[2].conn = ws
    /\ Len(FramesOf(r)) = 1

\* C8: send transmits, one frame at the end of the stream, exactly when the
\* endpoint holds a connection whose readyState is OPEN; otherwise it
\* throws and transmits nothing, and nothing but a send of the event being
\* emitted ever adds a frame to the stream.
C8_SendNeedsOpen ==
  [][/\ (lastOp'.name = "emit" /\ lastOp'.event \in MOCHA_EVENT_NAMES) =>
          IF ws # 0 /\ conns[ws].readyState = "OPEN"
          THEN /\ lastOp'.err = ""
               /\ sent' = Append(sent, Frame(ws, lastOp'.m, lastOp'.event))
          ELSE /\ lastOp'.err = "Cannot send, WebSocket is closed"
               /\ sent' = sent
     /\ sent' # sent =>
          /\ lastOp'.name = "emit"
          /\ lastOp'.event \in MOCHA_EVENT_NAMES
          /\ Len(sent') = Len(sent) + 1]_vars

\* C8 witness: send threw while a connection was held but not open.
C8_Witness ==
  /\ lastOp.name = "emit"
  /\ lastOp.err = "Cannot send, WebSocket is closed"
  /\ ws # 0
  /\ conns[ws].readyState = "CONNECTING"

\* C11: disconnect() never throws and invokes no callback; it closes only
\* the connection held, and only if that one is not closing or closed
\* already; called with no connection and no timer pending (as right after
\* a disconnect()) it changes nothing.
C11_DisconnectIdempotent ==
  [][lastOp'.name = "disconnect" =>
       /\ lastOp'.err = ""
       /\ lastOp'.calls = <<>>
       /\ ws' = 0
       /\ timers' = {}
       /\ DOMAIN conns' = DOMAIN conns
       /\ \A c \in DOMAIN conns :
            IF c = ws
            THEN conns'[c].readyState =
                   IF conns[c].readyState \in {"CONNECTING", "OPEN"}
                   THEN "CLOSING" ELSE conns[c].readyState
            ELSE conns'[c] = conns[c]
       /\ (ws = 0 /\ timers = {}) =>
            UNCHANGED <<ws, conns, retryTimeout, timers, instrumentedMocha,
                        mochas, runs, sent>>]_vars

\* C11 witness: disconnect() was called again right after a disconnect()
\* that closed a connection which is still closing.
C11_Witness ==
  /\ lastOp.name = "disconnect"
  /\ lastOp.cb = "no connection"
  /\ afterDisconnect.active
  /\ \E c \in DOMAIN conns :
       conns[c].readyState = "CLOSING" /\ "close" \notin conns[c].listeners

\* A connection whose close listener was removed: disconnect() let go of it.
Abandoned(c) == "close" \notin conns[c].listeners

\* C12 (as stated): disconnect() on an existing connection leaves none of
\* the endpoint's listeners on it, the "open" listener included, and the
\* open callbacks never fire for a connection disconnect() let go of.
C12_UnregistersAllListeners ==
  [][/\ (lastOp'.name = "disconnect" /\ ws # 0) =>
          conns'[ws].listeners = {}
     /\ lastOp'.name = "open" =>
          \E c \in DOMAIN conns :
            /\ conns[c].readyState = "CONNECTING"
            /\ conns'[c].readyState = "OPEN"
            /\ ~Abandoned(c)]_vars

\* C12 (amended): disconnect() on an existing connection removes the close,
\* error and message listeners and closes it; the "open" listener stays,
\* but a connection let go of is closing or closed, is no longer held, and
\* never opens, so onConnected and fn are only ever invoked for a
\* connection disconnect() has not been called on.
C12_NoCallbackAfterDisconnect ==
  [][/\ (lastOp'.name = "disconnect" /\ ws # 0) =>
          /\ conns'[ws].listeners =
               conns[ws].listeners \ {"close", "error", "message"}
          /\ conns'[ws].readyState \in {"CLOSING", "CLOSED"}
     /\ \A c \in DOMAIN conns' :
          "close" \notin conns'[c].listeners =>
            /\ c # ws'
            /\ conns'[c].listeners = {"open"}
            /\ conns'[c].readyState \in {"CLOSING", "CLOSED"}
     /\ lastOp'.name = "open" =>
          /\ \E c \in DOMAIN conns :
               /\ conns[c].readyState = "CONNECTING"
               /\ conns'[c].readyState = "OPEN"
               /\ ~Abandoned(c)
               /\ c = ws
     /\ (lastOp'.name \in {"close", "error", "message"}
           /\ lastOp'.cb = "unheard") =>
          /\ lastOp'.calls = <<>>
          /\ UNCHANGED <<ws, timers, instrumentedMocha, runs, sent>>]_vars

\* C12 witness: disconnect() has just been called on a connection that was
\* still connecting; the connection is closing with only its "open"
\* listener left.
C12_Witness ==
  /\ lastOp.name = "disconnect"
  /\ lastOp.cb = "CONNECTING"
  /\ \E c \in DOMAIN conns :
       /\ conns[c].readyState = "CLOSING"
       /\ conns[c].listeners = {"open"}

\* C13: without autoConnect the constructor opens no connection and the
\* first one is opened by connect(); with autoConnect the constructor
\* leaves one connection connecting.  When a connection opens, onConnected
\* and then the fn given to its connect() are called, once each, for the
\* held connection; no connection opens twice and no other step calls them.
C13_ConnectCallbacks ==
  /\ [](lastOp.name = "constructor" =>
          IF config.autoConnect
          THEN /\ ws = 1
               /\ Len(conns) = 1
               /\ conns[1].readyState = "CONNECTING"
          ELSE ws = 0 /\ conns = <<>>)
  /\ [][/\ (conns = <<>> /\ conns' # <<>>) => lastOp'.name = "connect"
        /\ \A c \in DOMAIN conns :
             /\ conns'[c].fn = conns[c].fn
             /\ conns[c].readyState # "CONNECTING" =>
                  conns'[c].readyState # "CONNECTING"
        /\ IF lastOp'.name = "open"
           THEN \E c \in DOMAIN conns :
                  /\ c = ws
                  /\ conns[c].readyState = "CONNECTING"
                  /\ conns'[c].readyState = "OPEN"
                  /\ lastOp'.calls =
                       IF conns[c].fn
                       THEN <<Call("onConnected", 0), Call("fn", 0)>>
                       ELSE <<Call("onConnected", 0)>>
           ELSE /\ CallsOf(lastOp'.calls, "onConnected") = <<>>
                /\ CallsOf(lastOp'.calls, "fn") = <<>>]_vars

\* C13 witness: an endpoint built without autoConnect was connected with
\* connect(fn) and that connection has just opened, calling onConnected and
\* then fn.
C13_Witness ==
  /\ ~config.autoConnect
  /\ lastOp.name = "open"
  /\ lastOp.calls = <<Call("onConnected", 0), Call("fn", 0)>>
  /\ ws = 1
  /\ conns[1].readyState = "OPEN"

\* C14: handling an error event throws nothing, calls nothing and leaves
\* the connection handle, the connections, the retry timer and the stored
\* instrumented instance as they were, so the state in which a following
\* close event is handled is the one it would have been handled in anyway.
C14_ErrorIsLogOnly ==
  [][lastOp'.name = "error" =>
       /\ lastOp'.err = ""
       /\ lastOp'.calls = <<>>
       /\ UNCHANGED <<config, ws, conns, retryTimeout, timers,
                      instrumentedMocha, mochas, runs, sent, lastClose,
                      afterDisconnect>>]_vars

\* C14 witness: the held connection reported an error that the endpoint's
\* listener handled, and the connection is still held.
C14_Witness ==
  /\ lastOp.name = "error"
  /\ lastOp.cb = "absent"
  /\ ws # 0
  /\ conns[ws].readyState \in {"CONNECTING", "OPEN"}

AbnormalCloseAfter(n) ==
  /\ lastOp.name = "close"
  /\ lastOp.cb # "unheard"
  /\ lastOp.code # NormalClosure
  /\ Len(conns) = n

C17_OnDisconnectedPerClose ==
  [][lastOp'.name = "close" =>
       IF lastOp'.cb = "unheard"
       THEN /\ lastOp'.calls = <<>>
            /\ UNCHANGED <<ws, retryTimeout, timers>>
       ELSE /\ ~(\E c \in DOMAIN conns :
                   /\ Abandoned(c)
                   /\ conns[c].readyState # "CLOSED"
                   /\ conns'[c].readyState = "CLOSED")
            /\ CallsOf(lastOp'.calls, "onDisconnected") =
                 IF lastOp'.cb = "absent" THEN <<>>
                 ELSE <<Call("onDisconnected", lastOp'.code)>>
            /\ lastOp'.cb = "connect" =>
                 /\ lastOp'.err = ""
                 /\ Len(conns') = Len(conns) + 1
                 /\ ws' = Len(conns')
                 /\ conns'[ws'].readyState = "CONNECTING"
                 /\ timers' = {}
            /\ lastOp'.cb \in {"absent", "noop"} =>
                 /\ ws' = 0
                 /\ Cardinality(timers') =
                      IF lastOp'.code # NormalClosure /\ config.autoRetry
                      THEN 1 ELSE 0]_vars

\* C17 witness: an abnormal close with autoRetry on has called an
\* onDisconnected that calls connect(); the new connection is held and the
\* retry that onClose had scheduled is gone.
C17_Witness ==
  /\ lastOp.name = "close"
  /\ lastOp.cb = "connect"
  /\ lastOp.code # NormalClosure
  /\ config.autoRetry
  /\ lastOp.err = ""
  /\ lastOp.calls[1] = Call("onDisconnected", lastOp.code)
  /\ ws = Len(conns)
  /\ timers = {}
  /\ retryTimeout # 0

\* C18: at most one retry timer is pending, it is the one retryTimeout
\* names, none is pending while a connection handle is held, and the
\* connect() of a retry timer that fired did not throw.
C18_OneRetryTimer ==
  /\ Cardinality(timers) <= 1
  /\ \A x \in timers : x.id = retryTimeout
  /\ timers # {} => ws = 0
  /\ lastOp.name = "timer" =>
       /\ lastOp.err = ""
       /\ ws = Len(conns)
       /\ timers = {}

\* C18 witness: a retry timer is pending and due while no connection
\* handle is held.
C18_Witness ==
  /\ Cardinality(timers) = 1
  /\ \A x \in timers : x.remaining = 0 /\ x.id = retryTimeout
  /\ ws = 0
  /\ lastOp.name = "tick"

EndpointListeners == {"close", "error", "message"}

\* The connections that still have one of the endpoint's close, error and
\* message listeners attached.
Listening == {c \in DOMAIN conns : conns[c].listeners \cap EndpointListeners # {}}

\* C19 (as stated): at most one connection has the endpoint's close, error
\* and message listeners attached, and it is the connection held.
C19_OneListeningConnection ==
  /\ Cardinality(Listening) <= 1
  /\ \A c \in Listening : c = ws

\* C19 (amended): among the connections that are not closed, at most one
\* still has the endpoint's close, error and message listeners, and it is
\* the connection held; so an event is heard only from the held connection,
\* and the steps in which the handle is cleared, a retry is scheduled or a
\* message is handled are the endpoint's own calls or events of the held
\* connection.
C19_OneLiveListeningConnection ==
  [][/\ \A c \in Listening' :
          conns'[c].readyState # "CLOSED" =>
            c = ws' /\ EndpointListeners \subseteq conns'[c].listeners
     /\ (lastOp'.name \in {"close", "error", "message"}
           /\ lastOp'.cb # "unheard") =>
          /\ ws # 0
          /\ conns[ws].readyState # "CLOSED"
          /\ \A c \in DOMAIN conns \ {ws} : conns'[c] = conns[c]
     /\ (lastOp'.name \in {"close", "error", "message"}
           /\ lastOp'.cb = "unheard") =>
          UNCHANGED <<ws, retryTimeout, timers, instrumentedMocha, mochas,
                      runs, sent>>]_vars

\* C19 witness: a connection that closed still has its listeners attached
\* while a newer connection, with the same listeners, is held and open.
C19_Witness ==
  /\ Len(conns) = 2
  /\ ws = 2
  /\ conns[1].readyState = "CLOSED"
  /\ EndpointListeners \subseteq conns[1].listeners
  /\ conns[2].readyState = "OPEN"
  /\ EndpointListeners \subseteq conns[2].listeners

\* C20: every frame transmitted for a run goes out on the connection that
\* was open when the run was started; once that connection is lost, no
\* later event of the run is transmitted on a newer connection.
C20_FramesOnOwnConnection ==
  \A i \in DOMAIN sent :
    runs[sent[i].run].conn # 0 => sent[i].conn = runs[sent[i].run].conn

=============================================================================
